---- MODULE Spec2Model ----
(***************************************************************************)
(* A model of the test-server HTTP response simulator.                     *)
(*                                                                         *)
(* The repository holds two programs built from the same handler: main.go  *)
(* and a second source file (unnamed/part_000) that differs from it in the *)
(* parsing of cutOffs and in the usage text.  The variable `build` says    *)
(* which of the two programs is running.                                   *)
(*                                                                         *)
(* Strings are sequences of one-character strings, so that splitting,      *)
(* trimming and number parsing are computed as the code computes them.     *)
(* Durations are counted in milliseconds.                                  *)
(***************************************************************************)
EXTENDS Integers, Sequences, FiniteSets, TLC

VARIABLES build, concurrent, sessions, mx, pc, query, parsed, params, io,
          toSend, cutOffLeft, dataLen, header, sent, arrived, arrival, steps,
          nreq

vars == <<build, concurrent, sessions, mx, pc, query, parsed, params, io,
          toSend, cutOffLeft, dataLen, header, sent, arrived, arrival, steps,
          nreq>>

(***************************************************************************)
(* Bounds of the model.                                                    *)
(***************************************************************************)
NumHandlers == 2
MaxRequests == 4
MaxWrites == 11

Handlers == 1..NumHandlers

(***************************************************************************)
(* Strings: strings.Split, strings.TrimSpace, strconv.Atoi, strconv.Itoa,  *)
(* time.ParseDuration.                                                     *)
(***************************************************************************)
Digit == {"0", "1", "2", "3", "4", "5", "6", "7", "8", "9"}

DigitVal(c) ==
    CASE c = "0" -> 0 [] c = "1" -> 1 [] c = "2" -> 2 [] c = "3" -> 3
      [] c = "4" -> 4 [] c = "5" -> 5 [] c = "6" -> 6 [] c = "7" -> 7
      [] c = "8" -> 8 [] c = "9" -> 9

DigitChar(d) ==
    CASE d = 0 -> "0" [] d = 1 -> "1" [] d = 2 -> "2" [] d = 3 -> "3"
      [] d = 4 -> "4" [] d = 5 -> "5" [] d = 6 -> "6" [] d = 7 -> "7"
      [] d = 8 -> "8" [] d = 9 -> "9"

RECURSIVE Split(_, _)
Split(s, sep) ==
    IF \E i \in 1..Len(s) : s[i] = sep
    THEN LET i == CHOOSE k \in 1..Len(s) :
                      s[k] = sep /\ \A j \in 1..(k - 1) : s[j] # sep
         IN  <<SubSeq(s, 1, i - 1)>> \o Split(SubSeq(s, i + 1, Len(s)), sep)
    ELSE <<s>>

RECURSIVE TrimSpace(_)
TrimSpace(s) ==
    IF s = <<>> THEN s
    ELSE IF s[1] = " " THEN TrimSpace(Tail(s))
    ELSE IF s[Len(s)] = " " THEN TrimSpace(SubSeq(s, 1, Len(s) - 1))
    ELSE s

RECURSIVE DigitsVal(_)
DigitsVal(s) ==
    IF s = <<>> THEN 0
    ELSE 10 * DigitsVal(SubSeq(s, 1, Len(s) - 1)) + DigitVal(s[Len(s)])

AllDigits(s) == s # <<>> /\ \A i \in 1..Len(s) : s[i] \in Digit

\* strconv.Atoi: an optional sign and at least one decimal digit.
Atoi(s) ==
    LET signed == s # <<>> /\ s[1] \in {"+", "-"}
        body   == IF signed THEN Tail(s) ELSE s
    IN  IF AllDigits(body)
        THEN [err |-> FALSE,
              val |-> IF signed /\ s[1] = "-" THEN 0 - DigitsVal(body)
                      ELSE DigitsVal(body)]
        ELSE [err |-> TRUE, val |-> 0]

RECURSIVE Itoa(_)
Itoa(n) ==
    IF n < 0 THEN <<"-">> \o Itoa(0 - n)
    ELSE IF n < 10 THEN <<DigitChar(n)>>
    ELSE Itoa(n \div 10) \o <<DigitChar(n % 10)>>

\* time.ParseDuration on the forms [sign]digits("ms"|"s") and "0"; the result
\* is in milliseconds.  Every other string is an error.
ParseDuration(s) ==
    LET signed == s # <<>> /\ s[1] \in {"+", "-"}
        body   == IF signed THEN Tail(s) ELSE s
        n      == Len(body)
        neg(v) == IF signed /\ s[1] = "-" THEN 0 - v ELSE v
    IN  IF body = <<"0">> THEN [err |-> FALSE, val |-> 0]
        ELSE IF n >= 3 /\ body[n - 1] = "m" /\ body[n] = "s"
                       /\ AllDigits(SubSeq(body, 1, n - 2))
        THEN [err |-> FALSE, val |-> neg(DigitsVal(SubSeq(body, 1, n - 2)))]
        ELSE IF n >= 2 /\ body[n] = "s" /\ AllDigits(SubSeq(body, 1, n - 1))
        THEN [err |-> FALSE,
              val |-> neg(1000 * DigitsVal(SubSeq(body, 1, n - 1)))]
        ELSE [err |-> TRUE, val |-> 0]

(***************************************************************************)
(* url.Values: a query is a function from the keys present to their       *)
(* values.                                                                 *)
(***************************************************************************)
Get(q, key) == IF key \in DOMAIN q THEN q[key] ELSE <<>>

Has(q, key) == key \in DOMAIN q

(***************************************************************************)
(* type params and parseParams.                                            *)
(* bytesPerSec is a *int: the empty sequence is nil, <<n>> points to n.    *)
(***************************************************************************)
NoParams ==
    [id |-> <<>>, randomDelay |-> <<>>, delays |-> <<>>, codes |-> <<>>,
     cutOffs |-> <<>>, size |-> 0, bytesPerSec |-> <<>>, isBinary |-> FALSE,
     sessionCount |-> 0]

Ok(p) == [kind |-> "ok", p |-> p, msg |-> ""]

Err(msg) == [kind |-> "err", p |-> NoParams, msg |-> msg]

Panic(msg) == [kind |-> "panic", p |-> NoParams, msg |-> msg]

AnyErr(rs) == \E i \in 1..Len(rs) : rs[i].err

Vals(rs) == [i \in 1..Len(rs) |-> rs[i].val]

NonEmpty(s) == s # <<>>

\* The delay block.  In the range form the first duration is parsed and then
\* stored into randomDelay[0]; randomDelay is a nil slice of length 0, so the
\* store is an index out of range and the goroutine panics.
parseDelay(p, sd) ==
    IF sd = <<>> THEN Ok(p)
    ELSE LET randDur == Split(sd, "-")
         IN  IF Len(randDur) = 2
             THEN IF ParseDuration(randDur[1]).err
                  THEN Err("can't parse duration")
                  ELSE Panic("index out of range [0] with length 0")
             ELSE LET dur == Split(sd, ",")
                      rs  == [i \in 1..Len(dur) |-> ParseDuration(dur[i])]
                  IN  IF AnyErr(rs) THEN Err("can't parse duration")
                      ELSE Ok([p EXCEPT !.delays = Vals(rs)])

parseSize(p, ss) ==
    IF ss # <<>>
    THEN LET r == Atoi(ss)
         IN  IF r.err THEN Err("can't parse size")
             ELSE Ok([p EXCEPT !.size = r.val])
    ELSE Err("required size parameter is missing")

parseBps(p, sb) ==
    IF sb # <<>>
    THEN LET r == Atoi(sb)
         IN  IF r.err THEN Err("can't parse bytes per second")
             ELSE Ok([p EXCEPT !.bytesPerSec = <<r.val>>])
    ELSE Ok(p)

\* main.go: every token is trimmed, the empty tokens are skipped.
parseCutOffsMain(p, cutOffs) ==
    LET toks == Split(cutOffs, ",")
        trim == [i \in 1..Len(toks) |-> TrimSpace(toks[i])]
        kept == SelectSeq(trim, NonEmpty)
        rs   == [i \in 1..Len(kept) |-> Atoi(kept[i])]
    IN  IF AnyErr(rs) THEN Err("can't parse status codes")
        ELSE Ok([p EXCEPT !.cutOffs = Vals(rs)])

\* unnamed/part_000: an empty token is appended as -1.
parseCutOffsPart(p, cutOffs) ==
    IF cutOffs # <<>>
    THEN LET toks == Split(cutOffs, ",")
             trim == [i \in 1..Len(toks) |-> TrimSpace(toks[i])]
             rs   == [i \in 1..Len(trim) |->
                         IF trim[i] # <<>> THEN Atoi(trim[i])
                         ELSE [err |-> FALSE, val |-> -1]]
         IN  IF AnyErr(rs) THEN Err("can't parse cut-offs")
             ELSE Ok([p EXCEPT !.cutOffs = Vals(rs)])
    ELSE Ok(p)

parseCutOffs(b, p, cutOffs) ==
    IF b = "main.go" THEN parseCutOffsMain(p, cutOffs)
    ELSE parseCutOffsPart(p, cutOffs)

parseCodes(p, codes) ==
    IF codes # <<>>
    THEN LET toks == Split(codes, ",")
             trim == [i \in 1..Len(toks) |-> TrimSpace(toks[i])]
             kept == SelectSeq(trim, NonEmpty)
             rs   == [i \in 1..Len(kept) |-> Atoi(kept[i])]
         IN  IF AnyErr(rs) THEN Err("can't parse status codes")
             ELSE Ok([p EXCEPT !.codes = Vals(rs)])
    ELSE Ok(p)

\* The last lines of parseParams: the bin flag and the session id.
parseFlags(p, q) ==
    Ok([p EXCEPT !.isBinary = Has(q, "bin"), !.id = Get(q, "id")])

\* parseParams of program b, block after block, in the order delay, size, bps,
\* cutOffs, codes: a block runs when the blocks before it returned no error
\* and did not panic.  Each set holds the one result so far.
afterDelay(q) == {parseDelay(NoParams, Get(q, "delay"))}

afterSize(q) ==
    UNION {IF r.kind = "ok" THEN {parseSize(r.p, Get(q, "size"))} ELSE {r} :
              r \in afterDelay(q)}

afterBps(q) ==
    UNION {IF r.kind = "ok" THEN {parseBps(r.p, Get(q, "bps"))} ELSE {r} :
              r \in afterSize(q)}

afterCutOffs(b, q) ==
    UNION {IF r.kind = "ok" THEN {parseCutOffs(b, r.p, Get(q, "cutOffs"))}
           ELSE {r} : r \in afterBps(q)}

afterCodes(b, q) ==
    UNION {IF r.kind = "ok" THEN {parseCodes(r.p, Get(q, "codes"))} ELSE {r} :
              r \in afterCutOffs(b, q)}

parseParams(b, q) ==
    CHOOSE res \in UNION {IF r.kind = "ok" THEN {parseFlags(r.p, q)} ELSE {r} :
                             r \in afterCodes(b, q)} : TRUE

(***************************************************************************)
(* The step resolver: delayDuration, statusCode, cutOff, and payload.      *)
(***************************************************************************)
StatusOK == 200

\* Go's integer division truncates toward zero.
Quot(a, b) == IF a >= 0 THEN a \div b ELSE 0 - ((0 - a) \div b)

Min(a, b) == IF a < b THEN a ELSE b

\* A delayDuration that resolves every request to no delay.
delayDurationZero(p) == {0}

\* The durations delayDuration may return.  In range mode the sample is
\* Int64N(max - min) + min, and Int64N panics when its argument is not
\* positive: the set is then empty.
delayDuration(p) ==
    IF Len(p.randomDelay) = 2
    THEN {p.randomDelay[1] + k :
             k \in 0..(p.randomDelay[2] - p.randomDelay[1] - 1)}
    ELSE IF Len(p.delays) > 1
    THEN LET idx == IF Len(p.delays) <= p.sessionCount
                    THEN Len(p.delays) - 1 ELSE p.sessionCount
         IN  {p.delays[idx + 1]}
    ELSE IF Len(p.delays) = 1 THEN {p.delays[1]}
    ELSE {0}

\* statusCode without the step: the last code for every request.
statusCodeLast(p) ==
    IF Len(p.codes) > 0 THEN p.codes[Len(p.codes)] ELSE StatusOK

\* statusCode that reads the step from the registry again.
statusCodeFromRegistry(p) ==
    LET step == IF p.id \in DOMAIN sessions THEN sessions[p.id] - 1 ELSE 0
    IN  IF Len(p.codes) > 0
        THEN IF Len(p.codes) > step THEN p.codes[step + 1]
             ELSE p.codes[Len(p.codes)]
        ELSE StatusOK

statusCode(p) ==
    IF Len(p.codes) > 0
    THEN IF Len(p.codes) > p.sessionCount THEN p.codes[p.sessionCount + 1]
         ELSE p.codes[Len(p.codes)]
    ELSE StatusOK

\* cutOff with the zero value, not -1, for an empty list.
cutOffZeroDefault(p) ==
    IF Len(p.cutOffs) > 0
    THEN IF Len(p.cutOffs) > p.sessionCount THEN p.cutOffs[p.sessionCount + 1]
         ELSE p.cutOffs[Len(p.cutOffs)]
    ELSE 0

cutOff(p) ==
    IF Len(p.cutOffs) > 0
    THEN IF Len(p.cutOffs) > p.sessionCount THEN p.cutOffs[p.sessionCount + 1]
         ELSE p.cutOffs[Len(p.cutOffs)]
    ELSE -1

\* A chunkSize that forgets bytesPerSec.
chunkSizeIsSize(p) == p.size

\* chunkSize of the delivery: *bytesPerSec when set, else size.
chunkSizeOf(p) ==
    IF p.bytesPerSec # <<>> THEN p.bytesPerSec[1] ELSE p.size

\* payload(size) allocates size bytes or runes; make panics on a negative
\* length.
payloadPanics(size) == size < 0

(***************************************************************************)
(* The response as the connection sees it.  io[h] is the sequence of the   *)
(* handler's effects on the connection and on the clock; sent[h] is the    *)
(* status line and the headers committed with it; header[h] is the         *)
(* handler's header map.  A header that is not set is the empty string.    *)
(***************************************************************************)
Ev(e, n) == [e |-> e, n |-> n]

NoHeader == [ctype |-> "", clen |-> <<>>]

NoResponse == [status |-> 0, hdr |-> NoHeader]

\* http.Error(w, text, code): the error headers, the status line, the text.
ErrorHeader == [ctype |-> "text/plain; charset=utf-8", clen |-> <<>>]

ContentType(p) ==
    IF p.isBinary THEN "application/octet-stream"
    ELSE "text/plain; charset=us-ascii"

Count(s, e) == Cardinality({i \in 1..Len(s) : s[i].e = e})

RECURSIVE Sum(_, _)
Sum(s, e) ==
    IF s = <<>> THEN 0
    ELSE (IF s[Len(s)].e = e THEN s[Len(s)].n ELSE 0)
         + Sum(SubSeq(s, 1, Len(s) - 1), e)

BadRequest == 400

PaceMs == 1000

(***************************************************************************)
(* The session registry.                                                   *)
(***************************************************************************)
Counter(m, id) == IF id \in DOMAIN m THEN m[id] ELSE 0

\* A registry that holds the stored id alone.
StoreAlone(m, id, v) == [k \in {id} |-> v]

Store(m, id, v) == [k \in DOMAIN m \cup {id} |-> IF k = id THEN v ELSE m[k]]

\* The same for what the model observes (arrived, steps).
Put(m, id, v) == [k \in DOMAIN m \cup {id} |-> IF k = id THEN v ELSE m[k]]

\* A lock that never waits.
LockNeverWaits(h) == TRUE

\* mx.Lock() returns when no goroutine holds mx.
LockFree(h) == mx = 0

(***************************************************************************)
(* The requests that are sent: query strings over the keys the handler     *)
(* reads.  A query is built from a set of <<key, value>> pairs.            *)
(***************************************************************************)
s_0 == <<"0">>

s_3 == <<"3">>

s_5 == <<"5">>

s_7 == <<"7">>

s_2 == <<"2">>

s_m1 == <<"-", "1">>

s_x == <<"x">>

s_100 == <<"1", "0", "0">>

s_1000 == <<"1", "0", "0", "0">>

s_a == <<"a">>

s_b == <<"b">>

s_delays == <<"0", "s", ",", "1", "s", ",", "2", "s">>

s_1s == <<"1", "s">>

s_range == <<"0", "m", "s", "-", "1", "s">>

s_range_bad == <<"1", "s", "-", "2", "x">>

s_range_bad1 == <<"x", "-", "1", "s">>

s_codes2 == <<"2", "0", "0", ",", "4", "0", "4">>

s_cut2 == <<",", ",", "2">>

s_cut300 == <<",", ",", "3", "0", "0">>

s_codes == <<"2", "0", "0", ",", "5", "0", "0", ",", "2", "0", "0">>

s_500 == <<"5", "0", "0">>

MkQuery(pairs) ==
    [k \in {kv[1] : kv \in pairs} |-> (CHOOSE kv \in pairs : kv[1] = k)[2]]

None == {{}}

Opt(key, values) == {{<<key, v>>} : v \in values}

\* Malformed and well-formed values of every key: what parseParams accepts,
\* rejects and panics on.
ParseQueries ==
    { MkQuery(d \cup z \cup b \cup c \cup o \cup i) :
        d \in None \cup Opt("delay", {s_delays, s_range, s_range_bad,
                                      s_range_bad1, s_x}),
        z \in None \cup Opt("size", {s_x, s_3}),
        b \in None \cup Opt("bps", {s_x, s_2}),
        c \in None \cup Opt("cutOffs", {s_x, s_cut2}),
        o \in None \cup Opt("codes", {s_x, s_codes}),
        i \in None \cup Opt("id", {s_a}) }

\* Accepted requests: sizes, chunk sizes, cut-offs and status lists.
DeliveryQueries ==
    { MkQuery(z \cup b \cup c \cup i \cup n) :
        z \in Opt("size", {s_0, s_3, s_5, s_m1}),
        b \in None \cup Opt("bps", {s_2, s_0, s_m1}),
        c \in None \cup Opt("cutOffs", {s_0, s_3, s_7, s_cut2, s_m1}),
        i \in Opt("id", {s_a}),
        n \in None \cup Opt("bin", {<<>>}) }

\* The requests of the usage text and of the documented scenarios.
ScenarioQueries ==
    { MkQuery(z \cup b \cup d \cup c \cup o \cup i) :
        z \in Opt("size", {s_1000}),
        b \in None \cup Opt("bps", {s_100}),
        d \in None \cup Opt("delay", {s_delays, s_1s}),
        c \in None \cup Opt("cutOffs", {s_cut300}),
        o \in None \cup Opt("codes", {s_codes, s_codes2}),
        i \in Opt("id", {s_a}) }

\* Requests with a size and nothing else but, perhaps, an empty id.
SizeOnlyQueries ==
    { MkQuery(z \cup i) : z \in Opt("size", {s_0, s_3, s_1000}),
                          i \in None \cup Opt("id", {<<>>}) }

SequentialQueries ==
    ParseQueries \cup DeliveryQueries \cup ScenarioQueries \cup SizeOnlyQueries

\* The requests of concurrent clients: three session ids (absent, empty and
\* "a"), lists of different lengths, a failing parse, a panic in the parse and
\* a panic in payload.
ConcurrentQueries ==
    { MkQuery(z \cup i) : z \in None \cup Opt("size", {s_m1}),
                          i \in None \cup Opt("id", {<<>>}) }
    \cup { MkQuery({<<"size", s_3>>, <<"delay", s_range>>}) }
    \cup { MkQuery({<<"size", s_3>>, <<"bps", s_2>>, <<"delay", s_delays>>,
                    <<"cutOffs", s_cut2>>, <<"codes", s_codes>>} \cup i) :
              i \in None \cup Opt("id", {s_a}) }
    \cup { MkQuery({<<"size", s_3>>, <<"codes", s_500>>, <<"id", s_a>>}) }

\* parseParams is a pure function of the query.  The requests that are sent
\* to program b, each with the result of parseParams of program b on its
\* query.
ParseAll(qs) ==
    {[build |-> b, q |-> q, res |-> parseParams(b, q)] :
        b \in {"main.go", "part_000"}, q \in qs}

SequentialRequests == ParseAll(SequentialQueries)

ConcurrentRequests == ParseAll(ConcurrentQueries)

(***************************************************************************)
(* The initial states: no request has been made, the registry is empty.    *)
(* parsed[h] is what parseParams returned to h.  arrived, arrival and steps *)
(* only observe: arrived[id] counts the accepted requests whose query      *)
(* carried id (no id is the empty id), arrival[h] is what that count was   *)
(* when the request of h came in, steps[id] lists the step values that     *)
(* updateSession has handed out for id.  nreq counts the accepted          *)
(* requests.                                                               *)
(***************************************************************************)
Builds == {"main.go", "part_000"}

InitWith(c) ==
    /\ build \in Builds
    /\ concurrent = c
    /\ sessions = <<>>
    /\ mx = 0
    /\ pc = [h \in Handlers |-> "idle"]
    /\ query = [h \in Handlers |-> <<>>]
    /\ parsed = [h \in Handlers |-> "none"]
    /\ params = [h \in Handlers |-> NoParams]
    /\ io = [h \in Handlers |-> <<>>]
    /\ toSend = [h \in Handlers |-> 0]
    /\ cutOffLeft = [h \in Handlers |-> -1]
    /\ dataLen = [h \in Handlers |-> 0]
    /\ header = [h \in Handlers |-> NoHeader]
    /\ sent = [h \in Handlers |-> NoResponse]
    /\ arrived = <<>>
    /\ arrival = [h \in Handlers |-> 0]
    /\ steps = <<>>
    /\ nreq = 0

Init == InitWith(TRUE)

InitSeq == InitWith(FALSE)

\* A request reaches handler h.  Sequential clients wait for the response
\* before they send the next request.
Requests == IF concurrent THEN ConcurrentRequests ELSE SequentialRequests

Arrives(h) ==
    /\ pc[h] = "idle"
    /\ concurrent \/ (h = 1 /\ \A g \in Handlers : pc[g] = "idle")

Fixed == UNCHANGED <<build, concurrent>>

Local == UNCHANGED <<toSend, cutOffLeft, dataLen>>

EffectiveId(q) == IF "id" \in DOMAIN q THEN q["id"] ELSE <<>>

Listed(m, id) == IF id \in DOMAIN m THEN m[id] ELSE <<>>

(***************************************************************************)
(* handler, lines 198-214: the connection supports Flusher and Hijacker    *)
(* (HTTP/1.1), the query is parsed.                                        *)
(***************************************************************************)
\* parseParams returns an error: http.Error with status 400.
handlerParseError(h, rq) ==
    /\ rq.build = build
    /\ rq.res.kind = "err"
    /\ query' = [query EXCEPT ![h] = rq.q]
    /\ header' = [header EXCEPT ![h] = ErrorHeader]
    /\ sent' = [sent EXCEPT ![h] = [status |-> BadRequest, hdr |-> ErrorHeader]]
    /\ io' = [io EXCEPT ![h] = <<Ev("status", BadRequest), Ev("errbody", 0)>>]
    /\ parsed' = [parsed EXCEPT ![h] = "err"]
    /\ pc' = [pc EXCEPT ![h] = "done"]
    /\ Fixed /\ Local
    /\ UNCHANGED <<sessions, mx, params, arrived, arrival, steps, nreq>>

\* parseParams panics: net/http recovers the panic and closes the connection
\* without a response.
handlerParsePanic(h, rq) ==
    /\ rq.build = build
    /\ rq.res.kind = "panic"
    /\ query' = [query EXCEPT ![h] = rq.q]
    /\ io' = [io EXCEPT ![h] = <<Ev("panic", 0)>>]
    /\ parsed' = [parsed EXCEPT ![h] = "panic"]
    /\ pc' = [pc EXCEPT ![h] = "done"]
    /\ Fixed /\ Local
    /\ UNCHANGED <<sessions, mx, params, header, sent, arrived, arrival, steps,
                   nreq>>

\* parseParams returns the params.
handlerAccept(h, rq) ==
    /\ rq.build = build
    /\ nreq < MaxRequests
    /\ LET r == rq.res
       IN  /\ r.kind = "ok"
           /\ params' = [params EXCEPT ![h] = r.p]
    /\ LET id == EffectiveId(rq.q)
       IN  /\ arrival' = [arrival EXCEPT ![h] = Counter(arrived, id)]
           /\ arrived' = Put(arrived, id, Counter(arrived, id) + 1)
    /\ query' = [query EXCEPT ![h] = rq.q]
    /\ parsed' = [parsed EXCEPT ![h] = "ok"]
    /\ nreq' = nreq + 1
    /\ pc' = [pc EXCEPT ![h] = "lock"]
    /\ Fixed /\ Local
    /\ UNCHANGED <<sessions, mx, io, header, sent, steps>>

(***************************************************************************)
(* params.updateSession: lock, read, write, unlock.                        *)
(***************************************************************************)
updateSessionLock(h) ==
    /\ pc[h] = "lock"
    /\ LockFree(h)
    /\ mx' = h
    /\ pc' = [pc EXCEPT ![h] = "read"]
    /\ Fixed /\ Local
    /\ UNCHANGED <<sessions, query, parsed, params, io, header, sent, arrived,
                   arrival, steps, nreq>>

updateSessionRead(h) ==
    /\ pc[h] = "read"
    /\ params' = [params EXCEPT
                    ![h].sessionCount = Counter(sessions, params[h].id)]
    /\ pc' = [pc EXCEPT ![h] = "write"]
    /\ Fixed /\ Local
    /\ UNCHANGED <<sessions, mx, query, parsed, io, header, sent, arrived, arrival, steps,
                   nreq>>

StoredCount(p) == p.sessionCount + 1

updateSessionWrite(h) ==
    /\ pc[h] = "write"
    /\ sessions' = Store(sessions, params[h].id, StoredCount(params[h]))
    /\ io' = [io EXCEPT ![h] = Append(@, Ev("update", params[h].sessionCount))]
    /\ pc' = [pc EXCEPT ![h] = "unlock"]
    /\ Fixed /\ Local
    /\ UNCHANGED <<mx, query, parsed, params, header, sent, arrived, arrival,
                   steps, nreq>>

updateSessionUnlock(h) ==
    /\ pc[h] = "unlock"
    /\ mx' = 0
    /\ steps' = Put(steps, params[h].id,
                      Append(Listed(steps, params[h].id), params[h].sessionCount))
    /\ pc' = [pc EXCEPT ![h] = "delay"]
    /\ Fixed /\ Local
    /\ UNCHANGED <<sessions, query, parsed, params, io, header, sent, arrived,
                   arrival, nreq>>

(***************************************************************************)
(* params.delay: sleep for the resolved duration when it is positive.      *)
(***************************************************************************)
delay(h) ==
    /\ pc[h] = "delay"
    /\ IF delayDuration(params[h]) = {}
       THEN /\ io' = [io EXCEPT ![h] = Append(@, Ev("panic", 0))]
            /\ pc' = [pc EXCEPT ![h] = "done"]
       ELSE /\ \E dur \in delayDuration(params[h]) :
                 io' = [io EXCEPT ![h] =
                          IF dur > 0 THEN Append(@, Ev("delay", dur)) ELSE @]
            /\ pc' = [pc EXCEPT ![h] = "status"]
    /\ Fixed /\ Local
    /\ UNCHANGED <<sessions, mx, query, parsed, params, header, sent, arrived,
                   arrival, steps, nreq>>

(***************************************************************************)
(* handler, lines 219-239: the status line, the headers, the set-up of     *)
(* the delivery.                                                           *)
(***************************************************************************)
\* A test that takes every code from 200 on for a success.
IsSuccessFrom200(code) == code >= 200

IsSuccess(code) == Quot(code, 100) = 2

\* A status outside 2xx: http.Error with the status text, and return.
respondError(h) ==
    /\ pc[h] = "status"
    /\ LET code == statusCode(params[h])
       IN  /\ ~IsSuccess(code)
           /\ header' = [header EXCEPT ![h] = ErrorHeader]
           /\ sent' = [sent EXCEPT ![h] = [status |-> code, hdr |-> ErrorHeader]]
           /\ io' = [io EXCEPT ![h] = @ \o <<Ev("status", code), Ev("errbody", 0)>>]
    /\ pc' = [pc EXCEPT ![h] = "done"]
    /\ Fixed /\ Local
    /\ UNCHANGED <<sessions, mx, query, parsed, params, arrived, arrival, steps, nreq>>

\* The headers the handler adds to its header map after WriteHeader.
DeliveryHeader(p) == [ctype |-> ContentType(p), clen |-> Itoa(p.size)]

\* WriteHeader(code) commits the header map as it is at the call; the handler
\* adds Content-Type and Content-Length to the map afterwards.
WriteHeader(h, code) ==
    /\ sent' = [sent EXCEPT ![h] = [status |-> code, hdr |-> header[h]]]
    /\ header' = [header EXCEPT ![h] = DeliveryHeader(params[h])]

\* A 2xx status: the delivery is set up.  The loop is entered when toSend > 0.
startDelivery(h) ==
    /\ pc[h] = "status"
    /\ LET code == statusCode(params[h])
           p    == params[h]
       IN  /\ IsSuccess(code)
           /\ ~payloadPanics(chunkSizeOf(p))
           /\ WriteHeader(h, code)
           /\ io' = [io EXCEPT ![h] = Append(@, Ev("status", code))]
           /\ toSend' = [toSend EXCEPT ![h] = p.size]
           /\ dataLen' = [dataLen EXCEPT ![h] = chunkSizeOf(p)]
           /\ cutOffLeft' = [cutOffLeft EXCEPT ![h] = cutOff(p)]
           /\ pc' = [pc EXCEPT ![h] = IF p.size > 0 THEN "loop" ELSE "done"]
    /\ Fixed
    /\ UNCHANGED <<sessions, mx, query, parsed, params, arrived, arrival, steps, nreq>>

\* A 2xx status and a negative chunkSize: payload panics after WriteHeader.
payloadPanic(h) ==
    /\ pc[h] = "status"
    /\ LET code == statusCode(params[h])
           p    == params[h]
       IN  /\ IsSuccess(code)
           /\ payloadPanics(chunkSizeOf(p))
           /\ WriteHeader(h, code)
           /\ io' = [io EXCEPT ![h] = @ \o <<Ev("status", code), Ev("panic", 0)>>]
           /\ toSend' = [toSend EXCEPT ![h] = p.size]
    /\ pc' = [pc EXCEPT ![h] = "done"]
    /\ Fixed
    /\ UNCHANGED <<sessions, mx, query, parsed, params, cutOffLeft, dataLen, arrived,
                   arrival, steps, nreq>>

(***************************************************************************)
(* handler, lines 240-262: one iteration of the delivery loop.             *)
(***************************************************************************)
\* The length of this iteration's write.
WriteSize(h) ==
    LET size == Min(dataLen[h], toSend[h])
    IN  IF cutOffLeft[h] >= 0 THEN Min(size, cutOffLeft[h]) ELSE size

\* cutOff after this iteration's write.
CutOffAfter(h) ==
    IF cutOffLeft[h] >= 0 THEN cutOffLeft[h] - WriteSize(h) ELSE cutOffLeft[h]

\* The connection is severed when cutOff is 0 after a write that leaves bytes.
MustClose(cut) == cut = 0

InLoop(h) ==
    /\ pc[h] = "loop"
    /\ toSend[h] > 0

\* What the model records of the connection: the events of the first
\* MaxWrites iterations of the loop.  Later iterations run unrecorded.
Log(h, evs) == IF Count(io[h], "write") < MaxWrites THEN io[h] \o evs ELSE io[h]

LogSleep(h) ==
    IF Count(io[h], "sleep") < Count(io[h], "write")
    THEN Append(io[h], Ev("sleep", PaceMs)) ELSE io[h]

\* The write that sends the last bytes: the loop ends.
writeLast(h) ==
    /\ InLoop(h)
    /\ toSend[h] - WriteSize(h) <= 0
    /\ io' = [io EXCEPT ![h] = Log(h, <<Ev("write", WriteSize(h))>>)]
    /\ toSend' = [toSend EXCEPT ![h] = @ - WriteSize(h)]
    /\ cutOffLeft' = [cutOffLeft EXCEPT ![h] = CutOffAfter(h)]
    /\ pc' = [pc EXCEPT ![h] = "done"]
    /\ Fixed
    /\ UNCHANGED <<sessions, mx, query, parsed, params, dataLen, header, sent,
                   arrived, arrival, steps, nreq>>

\* A write that leaves bytes, with cutOff at 0: flush, hijack, close, break.
writeAndClose(h) ==
    /\ InLoop(h)
    /\ toSend[h] - WriteSize(h) > 0
    /\ MustClose(CutOffAfter(h))
    /\ io' = [io EXCEPT ![h] =
                Log(h, <<Ev("write", WriteSize(h)), Ev("flush", 0), Ev("close", 0)>>)]
    /\ toSend' = [toSend EXCEPT ![h] = @ - WriteSize(h)]
    /\ cutOffLeft' = [cutOffLeft EXCEPT ![h] = CutOffAfter(h)]
    /\ pc' = [pc EXCEPT ![h] = "done"]
    /\ Fixed
    /\ UNCHANGED <<sessions, mx, query, parsed, params, dataLen, header, sent,
                   arrived, arrival, steps, nreq>>

\* A write that leaves bytes, cutOff not at 0: flush, then the pacing sleep.
writeAndFlush(h) ==
    /\ InLoop(h)
    /\ toSend[h] - WriteSize(h) > 0
    /\ ~MustClose(CutOffAfter(h))
    /\ io' = [io EXCEPT ![h] = Log(h, <<Ev("write", WriteSize(h)), Ev("flush", 0)>>)]
    /\ toSend' = [toSend EXCEPT ![h] = @ - WriteSize(h)]
    /\ cutOffLeft' = [cutOffLeft EXCEPT ![h] = CutOffAfter(h)]
    /\ pc' = [pc EXCEPT ![h] = "sleep"]
    /\ Fixed
    /\ UNCHANGED <<sessions, mx, query, parsed, params, dataLen, header, sent,
                   arrived, arrival, steps, nreq>>

\* time.Sleep(time.Second) returns: the next iteration.
paceSleep(h) ==
    /\ pc[h] = "sleep"
    /\ io' = [io EXCEPT ![h] = LogSleep(h)]
    /\ pc' = [pc EXCEPT ![h] = "loop"]
    /\ Fixed
    /\ UNCHANGED <<sessions, mx, query, parsed, params, toSend, cutOffLeft, dataLen,
                   header, sent, arrived, arrival, steps, nreq>>

\* The handler function returns; the goroutine serves the next request.
handlerReturn(h) ==
    /\ pc[h] = "done"
    /\ pc' = [pc EXCEPT ![h] = "idle"]
    /\ query' = [query EXCEPT ![h] = <<>>]
    /\ parsed' = [parsed EXCEPT ![h] = "none"]
    /\ params' = [params EXCEPT ![h] = NoParams]
    /\ io' = [io EXCEPT ![h] = <<>>]
    /\ toSend' = [toSend EXCEPT ![h] = 0]
    /\ cutOffLeft' = [cutOffLeft EXCEPT ![h] = -1]
    /\ dataLen' = [dataLen EXCEPT ![h] = 0]
    /\ header' = [header EXCEPT ![h] = NoHeader]
    /\ sent' = [sent EXCEPT ![h] = NoResponse]
    /\ arrival' = [arrival EXCEPT ![h] = 0]
    /\ Fixed
    /\ UNCHANGED <<sessions, mx, arrived, steps, nreq>>

Next ==
    \E h \in Handlers :
        \/ Arrives(h) /\ \E rq \in Requests : handlerParseError(h, rq)
        \/ Arrives(h) /\ \E rq \in Requests : handlerParsePanic(h, rq)
        \/ Arrives(h) /\ \E rq \in Requests : handlerAccept(h, rq)
        \/ updateSessionLock(h)
        \/ updateSessionRead(h)
        \/ updateSessionWrite(h)
        \/ updateSessionUnlock(h)
        \/ delay(h)
        \/ respondError(h)
        \/ startDelivery(h)
        \/ payloadPanic(h)
        \/ writeLast(h)
        \/ writeAndClose(h)
        \/ writeAndFlush(h)
        \/ paceSleep(h)
        \/ handlerReturn(h)

\* Concurrent clients.
Spec == Init /\ [][Next]_vars

\* One client that sends its requests one after the other.
SpecSeq == InitSeq /\ [][Next]_vars

\* A goroutine that serves a request is scheduled again and again, and the
\* lock, the sleeps and the writes it waits for return: every step of a
\* handler between the arrival of the request and the return is taken.
Runs(h) ==
    \/ updateSessionLock(h)
    \/ updateSessionRead(h)
    \/ updateSessionWrite(h)
    \/ updateSessionUnlock(h)
    \/ delay(h)
    \/ respondError(h)
    \/ startDelivery(h)
    \/ payloadPanic(h)
    \/ writeLast(h)
    \/ writeAndClose(h)
    \/ writeAndFlush(h)
    \/ paceSleep(h)

Fairness == \A h \in Handlers : WF_vars(Runs(h))

\* The sequential client, with handlers that keep running.
SpecLive == InitSeq /\ [][Next]_vars /\ Fairness

(***************************************************************************)
(* What a finished request shows.                                          *)
(***************************************************************************)
Done(h) == pc[h] = "done"

InUpdate(h) == pc[h] \in {"lock", "read", "write", "unlock"}

Accepted(h) == parsed[h] = "ok"

Panicked(h) == Count(io[h], "panic") > 0

\* Clamp-to-last indexing of a list by a step that counts from 0.
Clamp(list, k) == list[Min(k, Len(list) - 1) + 1]

Written(h) == Sum(io[h], "write")

Closed(h) == Count(io[h], "close") > 0

(***************************************************************************)
(* C1.  Sequential requests with one id: the k-th accepted request         *)
(* (k = 0, 1, ...) that carries a non-empty codes list gets the status     *)
(* codes[min(k, len(codes)-1)]; with codes=200,500,200 that is 200, 500,   *)
(* 200 and then 200 for every later request.                               *)
(***************************************************************************)
C1_StatusByStep ==
    \A h \in Handlers :
        Done(h) /\ Accepted(h) =>
            /\ params[h].codes # <<>> =>
                   sent[h].status = Clamp(params[h].codes, arrival[h])
            /\ Get(query[h], "codes") = s_codes =>
                   sent[h].status = Clamp(<<200, 500, 200>>, arrival[h])

C1_FourthRequest ==
    \E h \in Handlers :
        /\ Done(h) /\ Accepted(h)
        /\ Get(query[h], "codes") = s_codes
        /\ arrival[h] = 3
        /\ sent[h].status = 200

(***************************************************************************)
(* C2.  cutOffs=,,300 and size=1000 without bps and codes, sequential      *)
(* requests with one id: an empty token keeps its step as "no truncation"  *)
(* (-1).  The first and the second request write all 1000 bytes and the    *)
(* connection is not severed; the third writes 300 bytes and the           *)
(* connection is severed with 700 bytes unsent.                            *)
(***************************************************************************)
C2_Request(h) ==
    /\ Done(h) /\ Accepted(h)
    /\ Get(query[h], "cutOffs") = s_cut300
    /\ Get(query[h], "size") = s_1000
    /\ ~Has(query[h], "bps")
    /\ ~Has(query[h], "codes")

C2_EmptyTokenKeepsItsStep ==
    \A h \in Handlers :
        C2_Request(h) =>
            /\ params[h].cutOffs = <<-1, -1, 300>>
            /\ arrival[h] \in {0, 1} => Written(h) = 1000 /\ ~Closed(h)
            /\ arrival[h] = 2 =>
                   Written(h) = 300 /\ Closed(h) /\ toSend[h] = 700

(***************************************************************************)
(* C3.  Concurrent handlers with one session id: the step values handed    *)
(* out for an id are 0, 1, 2, ... each exactly once, without a gap; when   *)
(* no handler is inside updateSession for the id, its stored counter is    *)
(* the number of accepted requests that carried it; and the counter of an  *)
(* id never decreases and is never removed.                                *)
(***************************************************************************)
C3_StepsInv ==
    /\ \A id \in DOMAIN steps :
           steps[id] = [i \in 1..Len(steps[id]) |-> i - 1]
    /\ \A id \in DOMAIN arrived :
           (\A h \in Handlers : ~(InUpdate(h) /\ params[h].id = id)) =>
               /\ Counter(sessions, id) = arrived[id]
               /\ Len(Listed(steps, id)) = arrived[id]

C3_CounterGrows ==
    \A id \in DOMAIN sessions :
        id \in DOMAIN sessions' /\ sessions'[id] >= sessions[id]

C3_EachStepOnce == [](C3_StepsInv) /\ [][C3_CounterGrows]_vars

C3_TwoHandlersOneId ==
    \E h, g \in Handlers :
        /\ h # g
        /\ pc[h] = "delay" /\ pc[g] = "delay"
        /\ params[h].id = params[g].id
        /\ params[g].sessionCount = params[h].sessionCount + 1
        /\ Counter(sessions, params[h].id) = params[g].sessionCount + 1

(***************************************************************************)
(* C4.  A request without a size parameter, or with an empty one, is       *)
(* answered with HTTP 400 whatever its other parameters are, a delay of    *)
(* the range form dmin-dmax included.                                      *)
(***************************************************************************)
C4_MissingSizeIs400 ==
    \A h \in Handlers :
        Done(h) /\ Get(query[h], "size") = <<>> => sent[h].status = 400

(***************************************************************************)
(* C5.  A request with delay=dmin-dmax, both parts parsable durations and  *)
(* dmin < dmax, is parsed into range mode; the handler sleeps once, for a  *)
(* duration d with dmin <= d < dmax (in milliseconds), and the request     *)
(* completes with its normal response.                                     *)
(***************************************************************************)
C5_IsRangeDelay(sd) ==
    LET parts == Split(sd, "-")
    IN  /\ Len(parts) = 2
        /\ ~ParseDuration(parts[1]).err
        /\ ~ParseDuration(parts[2]).err
        /\ ParseDuration(parts[1]).val < ParseDuration(parts[2]).val

C5_RangeMin(sd) == ParseDuration(Split(sd, "-")[1]).val

C5_RangeMax(sd) == ParseDuration(Split(sd, "-")[2]).val

\* The request of h has nothing wrong but, perhaps, its delay.
C5_OtherwiseValid(q) ==
    /\ ~Atoi(Get(q, "size")).err
    /\ Atoi(Get(q, "size")).val >= 0
    /\ ~Has(q, "bps") /\ ~Has(q, "cutOffs") /\ ~Has(q, "codes")

C5_RangeDelaySleepsOnce ==
    \A h \in Handlers :
        Done(h) /\ C5_IsRangeDelay(Get(query[h], "delay"))
                /\ C5_OtherwiseValid(query[h]) =>
            /\ ~Panicked(h)
            /\ Len(params[h].randomDelay) = 2
            /\ sent[h].status = 200
            /\ Count(io[h], "delay") <= 1
            /\ \A i \in 1..Len(io[h]) :
                   io[h][i].e = "delay" =>
                       /\ C5_RangeMin(Get(query[h], "delay")) <= io[h][i].n
                       /\ io[h][i].n < C5_RangeMax(Get(query[h], "delay"))

(***************************************************************************)
(* C6.  A request that fails parsing (size missing or malformed; bps,      *)
(* delay, cutOffs or codes malformed) is answered with HTTP 400 and does   *)
(* not touch the session registry.                                         *)
(***************************************************************************)
C6_BadNumbers(s) ==
    \E i \in 1..Len(Split(s, ",")) :
        LET tok == TrimSpace(Split(s, ",")[i])
        IN  tok # <<>> /\ Atoi(tok).err

C6_BadDurations(s, sep) ==
    \E i \in 1..Len(Split(s, sep)) : ParseDuration(Split(s, sep)[i]).err

\* A delay is well formed when it is dmin-dmax or d0,d1,... with every part a
\* duration.
C6_BadDelay(sd) ==
    /\ sd # <<>>
    /\ IF Len(Split(sd, "-")) = 2 THEN C6_BadDurations(sd, "-")
       ELSE C6_BadDurations(sd, ",")

C6_Malformed(q) ==
    \/ Get(q, "size") = <<>>
    \/ Atoi(Get(q, "size")).err
    \/ Get(q, "bps") # <<>> /\ Atoi(Get(q, "bps")).err
    \/ C6_BadDelay(Get(q, "delay"))
    \/ C6_BadNumbers(Get(q, "cutOffs"))
    \/ C6_BadNumbers(Get(q, "codes"))

C6_ParseFailureIs400 ==
    \A h \in Handlers :
        Done(h) /\ C6_Malformed(query[h]) =>
            /\ sent[h].status = 400
            /\ Count(io[h], "update") = 0

(***************************************************************************)
(* C7.  A 2xx request with bps = b >= 1, size = N and no truncation:       *)
(* ceil(N/b) writes of at most b bytes each and ceil(N/b) - 1 sleeps of    *)
(* one second, one between two consecutive writes and none after the last  *)
(* write.  C7_WritesAndSleeps states it for every N; C7_WritesAndSleepsPos *)
(* for N >= 1, with no write and no sleep for the other N.                 *)
(***************************************************************************)
C7_CeilDiv(n, b) == (n + b - 1) \div b

C7_Paced(h) ==
    /\ Done(h) /\ Accepted(h) /\ ~Panicked(h)
    /\ IsSuccess(sent[h].status)
    /\ params[h].bytesPerSec # <<>>
    /\ params[h].bytesPerSec[1] >= 1
    /\ cutOff(params[h]) < 0

C7_IsWriteOrSleep(ev) == ev.e \in {"write", "sleep"}

C7_Shape(h) ==
    LET b  == params[h].bytesPerSec[1]
        w  == C7_CeilDiv(params[h].size, b)
        ws == SelectSeq(io[h], C7_IsWriteOrSleep)
    IN  /\ Count(io[h], "write") = w
        /\ Count(io[h], "sleep") = w - 1
        /\ Len(ws) = 2 * w - 1
        /\ \A i \in 1..Len(ws) :
               IF i % 2 = 1 THEN ws[i].e = "write" /\ ws[i].n \in 0..b
               ELSE ws[i] = Ev("sleep", 1000)

C7_WritesAndSleeps == \A h \in Handlers : C7_Paced(h) => C7_Shape(h)

C7_WritesAndSleepsPos ==
    \A h \in Handlers :
        C7_Paced(h) =>
            IF params[h].size >= 1
            THEN C7_Shape(h) /\ Written(h) = params[h].size
            ELSE Count(io[h], "write") = 0 /\ Count(io[h], "sleep") = 0

C7_TenChunks ==
    \E h \in Handlers :
        /\ C7_Paced(h)
        /\ params[h].size = 1000 /\ params[h].bytesPerSec = <<100>>
        /\ Count(io[h], "write") = 10
        /\ Count(io[h], "sleep") = 9
        /\ \A i \in 1..Len(io[h]) : io[h][i].e = "write" => io[h][i].n = 100

(***************************************************************************)
(* C8.  A request with a valid size = N >= 0 and no other parameter:       *)
(* status 200, a body of exactly N bytes written in a single write, no     *)
(* flush, no sleep, no severed connection.  C8_SingleWrite states it for   *)
(* every N >= 0; C8_SingleWritePos has one write for N >= 1 and no write   *)
(* for N = 0.                                                              *)
(***************************************************************************)
C8_SizeOnly(h) ==
    /\ Done(h)
    /\ DOMAIN query[h] = {"size"}
    /\ ~Atoi(query[h]["size"]).err
    /\ Atoi(query[h]["size"]).val >= 0

C8_Plain(h, writes) ==
    /\ sent[h].status = 200
    /\ Written(h) = Atoi(query[h]["size"]).val
    /\ Count(io[h], "write") = writes
    /\ Count(io[h], "flush") = 0
    /\ Count(io[h], "sleep") = 0
    /\ Count(io[h], "delay") = 0
    /\ ~Closed(h) /\ ~Panicked(h)

C8_SingleWrite == \A h \in Handlers : C8_SizeOnly(h) => C8_Plain(h, 1)

C8_SingleWritePos ==
    \A h \in Handlers :
        C8_SizeOnly(h) =>
            C8_Plain(h, IF Atoi(query[h]["size"]).val = 0 THEN 0 ELSE 1)

C8_OneWriteOf1000 ==
    \E h \in Handlers :
        /\ C8_SizeOnly(h)
        /\ query[h]["size"] = s_1000
        /\ SelectSeq(io[h], C7_IsWriteOrSleep) = <<Ev("write", 1000)>>
        /\ arrival[h] = 1

(***************************************************************************)
(* C9.  Counters of distinct ids are independent: a step changes the       *)
(* counter of an id only when it is updateSession's store of a request     *)
(* with that id; requests that omit id share the counter under the empty   *)
(* string, so such a request is handed the number of requests without id   *)
(* that went through the registry before it, whatever the other ids did.   *)
(***************************************************************************)
C9_Frame ==
    \A id \in DOMAIN sessions \cup DOMAIN sessions' :
        Counter(sessions', id) # Counter(sessions, id) =>
            \E h \in Handlers :
                /\ pc[h] = "write" /\ pc'[h] = "unlock"
                /\ EffectiveId(query[h]) = id
                /\ Counter(sessions', id) = Counter(sessions, id) + 1

C9_SharedEmptyId ==
    \A h \in Handlers :
        pc[h] = "unlock" /\ ~Has(query[h], "id") =>
            /\ params[h].id = <<>>
            /\ params[h].sessionCount = Len(Listed(steps, <<>>))
            /\ Counter(sessions, <<>>) = params[h].sessionCount + 1

C9_IndependentCounters == [](C9_SharedEmptyId) /\ [][C9_Frame]_vars

C9_SecondWithoutIdAfterOthers ==
    \E h \in Handlers :
        /\ pc[h] = "unlock" /\ ~Has(query[h], "id")
        /\ params[h].sessionCount = 1
        /\ Counter(sessions, <<"a">>) = 2

(***************************************************************************)
(* C10.  Sequential requests with one fresh id and size=1000, bps=100,     *)
(* delay=0s,1s,2s, cutOffs=,,300, codes=200,500,200: the 1st delivers      *)
(* 1000 bytes in 10 chunks of 100; the 2nd is delayed 1s and answered 500  *)
(* with no payload; the 3rd and every later one is delayed 2s, delivers    *)
(* exactly 300 bytes and then has its connection closed.                   *)
(***************************************************************************)
C10_UsageQuery ==
    MkQuery({<<"size", s_1000>>, <<"bps", s_100>>, <<"delay", s_delays>>,
             <<"cutOffs", s_cut300>>, <<"codes", s_codes>>, <<"id", s_a>>})

C10_Chunks(h, n) ==
    /\ Count(io[h], "write") = n
    /\ \A i \in 1..Len(io[h]) : io[h][i].e = "write" => io[h][i].n = 100

C10_Delayed(h, ms) ==
    IF ms = 0 THEN Count(io[h], "delay") = 0
    ELSE Count(io[h], "delay") = 1 /\ Sum(io[h], "delay") = ms

C10_First(h) ==
    /\ C10_Delayed(h, 0)
    /\ sent[h].status = 200
    /\ Written(h) = 1000 /\ C10_Chunks(h, 10)
    /\ ~Closed(h)

C10_Second(h) ==
    /\ C10_Delayed(h, 1000)
    /\ sent[h].status = 500
    /\ Count(io[h], "write") = 0

C10_Later(h) ==
    /\ C10_Delayed(h, 2000)
    /\ sent[h].status = 200
    /\ Written(h) = 300 /\ C10_Chunks(h, 3)
    /\ io[h][Len(io[h])].e = "close"

C10_UsageScenario ==
    \A h \in Handlers :
        Done(h) /\ query[h] = C10_UsageQuery =>
            CASE arrival[h] = 0 -> C10_First(h)
              [] arrival[h] = 1 -> C10_Second(h)
              [] OTHER -> C10_Later(h)

\* The scenario as the program of part_000 runs it.
C10_UsageScenarioFixed == build = "part_000" => C10_UsageScenario

(***************************************************************************)
(* C11.  A resolved status outside 2xx: the handler emits that status and  *)
(* ends, with no payload write, no flush, no pacing sleep and no severed   *)
(* connection; the session counter of the request's id has been            *)
(* incremented once for it.                                                *)
(***************************************************************************)
C11_NonSuccess(h) ==
    /\ Done(h) /\ Accepted(h)
    /\ params[h].codes # <<>>
    /\ Quot(Clamp(params[h].codes, params[h].sessionCount), 100) # 2

C11_StatusOnly ==
    \A h \in Handlers :
        C11_NonSuccess(h) =>
            /\ sent[h].status = Clamp(params[h].codes, params[h].sessionCount)
            /\ io[h][Len(io[h])] = Ev("errbody", 0)
            /\ Count(io[h], "status") = 1
            /\ Count(io[h], "write") = 0
            /\ Count(io[h], "flush") = 0
            /\ Count(io[h], "sleep") = 0
            /\ Count(io[h], "close") = 0
            /\ Count(io[h], "update") = 1
            /\ Counter(sessions, params[h].id) = params[h].sessionCount + 1

C11_Answered500 ==
    \E h \in Handlers :
        /\ C11_NonSuccess(h)
        /\ sent[h].status = 500
        /\ params[h].size = 1000 /\ params[h].bytesPerSec = <<100>>
        /\ params[h].sessionCount = 1
        /\ Counter(sessions, params[h].id) = 2

(***************************************************************************)
(* C12.  A 2xx request with size N, resolved cutOff c and bps absent or    *)
(* >= 1: when c < 0 or c >= N exactly N bytes are written and the          *)
(* connection is never severed; when 0 <= c < N exactly c bytes are        *)
(* written, then the connection is severed and nothing follows.  c = 0     *)
(* severs with no payload byte written, c = N delivers everything.         *)
(* C12_Truncation states it for every accepted size, C12_TruncationValid   *)
(* for the sizes N >= 0.                                                   *)
(***************************************************************************)
C12_Delivery(h) ==
    /\ Done(h) /\ Accepted(h)
    /\ IsSuccess(statusCode(params[h]))
    /\ params[h].bytesPerSec # <<>> => params[h].bytesPerSec[1] >= 1

C12_Outcome(h) ==
    LET N == params[h].size
        c == cutOff(params[h])
    IN  IF c < 0 \/ c >= N
        THEN /\ Written(h) = N
             /\ ~Closed(h) /\ ~Panicked(h)
        ELSE /\ Written(h) = c
             /\ Count(io[h], "close") = 1
             /\ io[h][Len(io[h])] = Ev("close", 0)
             /\ io[h][Len(io[h]) - 1] = Ev("flush", 0)
             /\ io[h][Len(io[h]) - 2].e = "write"

C12_Truncation == \A h \in Handlers : C12_Delivery(h) => C12_Outcome(h)

C12_TruncationValid ==
    \A h \in Handlers : C12_Delivery(h) /\ params[h].size >= 0 => C12_Outcome(h)

\* The cases of the valid sizes are all met: a cut in the second chunk, a cut
\* before the first byte, a cutOff equal to the size.
C12_CutInSecondChunk ==
    \E h \in Handlers :
        /\ C12_Delivery(h)
        /\ params[h].size = 5 /\ params[h].bytesPerSec = <<2>>
        /\ cutOff(params[h]) = 3
        /\ Written(h) = 3 /\ Closed(h)

C12_CutAtZero ==
    \E h \in Handlers :
        /\ C12_Delivery(h)
        /\ params[h].size = 3 /\ cutOff(params[h]) = 0
        /\ Written(h) = 0 /\ Closed(h)

C12_CutAtSize ==
    \E h \in Handlers :
        /\ C12_Delivery(h)
        /\ params[h].size = 3 /\ cutOff(params[h]) = 3
        /\ Written(h) = 3 /\ ~Closed(h)

(***************************************************************************)
(* C13.  At most one handler is inside the critical section of the         *)
(* registry, and the lock is held by no handler that is sleeping for its   *)
(* delay, writing, flushing, sleeping between chunks or closing: a handler *)
(* in a delay or in a pacing sleep never keeps another handler out of      *)
(* updateSession.                                                          *)
(***************************************************************************)
C13_Holders == {h \in Handlers : pc[h] \in {"read", "write", "unlock"}}

C13_Blocking == {h \in Handlers : pc[h] \in {"delay", "status", "loop", "sleep", "done"}}

C13_LockOnlyInUpdate ==
    /\ Cardinality(C13_Holders) <= 1
    /\ \A h \in Handlers : (mx = h) <=> (h \in C13_Holders)
    /\ \A h \in C13_Blocking : mx # h
    /\ \A g \in Handlers :
           pc[g] = "lock" /\ (\A h \in Handlers \ {g} : h \in C13_Blocking) =>
               ENABLED updateSessionLock(g)

C13_UpdateDuringSleep ==
    \E h, g \in Handlers :
        /\ pc[h] = "sleep" /\ Count(io[h], "flush") = 1
        /\ pc[g] = "write" /\ mx = g
        /\ params[g].id = params[h].id

(***************************************************************************)
(* C14.  Every params that parseParams returns without error has           *)
(* size >= 0 and, when bytesPerSec is set, bytesPerSec > 0; a query with a *)
(* negative size or with bps <= 0 is answered 400 and never reaches the    *)
(* delivery loop.                                                          *)
(***************************************************************************)
C14_OutOfRange(q) ==
    \/ Has(q, "size") /\ ~Atoi(q["size"]).err /\ Atoi(q["size"]).val < 0
    \/ Has(q, "bps") /\ ~Atoi(q["bps"]).err /\ Atoi(q["bps"]).val <= 0

C14_ValidDescriptor ==
    \A h \in Handlers :
        /\ Accepted(h) =>
               /\ params[h].size >= 0
               /\ params[h].bytesPerSec # <<>> => params[h].bytesPerSec[1] > 0
        /\ pc[h] # "idle" /\ C14_OutOfRange(query[h]) =>
               /\ parsed[h] = "err"
               /\ sent[h].status = 400
               /\ pc[h] \notin {"loop", "sleep"}

(***************************************************************************)
(* C15.  Within one request the delay, the status code and the cutOff are  *)
(* resolved from the same step, the value this request's updateSession     *)
(* returned, also when other requests with the same id go through          *)
(* updateSession before this request resolves them; each list is clamped   *)
(* to its own last element, whatever the lengths of the other two.         *)
(***************************************************************************)
C15_Step(h) == io[h][1].n

\* The entry of a list for step k, clamped to the last; default when empty.
ListAt(list, k, default) == IF list = <<>> THEN default ELSE Clamp(list, k)

C15_SameStep ==
    \A h \in Handlers :
        Accepted(h) /\ pc[h] \in {"status", "loop", "sleep", "done"} /\ ~Panicked(h) =>
            /\ io[h][1].e = "update"
            /\ Sum(io[h], "delay") = ListAt(params[h].delays, C15_Step(h), 0)
            /\ Count(io[h], "status") = 1 =>
                   sent[h].status = ListAt(params[h].codes, C15_Step(h), 200)
            /\ pc[h] = "loop" /\ Count(io[h], "write") = 0 =>
                   cutOffLeft[h] = ListAt(params[h].cutOffs, C15_Step(h), -1)

C15_OvertakenThirdRequest ==
    \E h \in Handlers :
        /\ Done(h) /\ Accepted(h)
        /\ C15_Step(h) = 2
        /\ Counter(sessions, params[h].id) = 4
        /\ Len(params[h].delays) = 3 /\ Len(params[h].codes) = 3
        /\ Len(params[h].cutOffs) = 1
        /\ Sum(io[h], "delay") = 2000
        /\ sent[h].status = 200
        /\ Written(h) = 2 /\ Closed(h)

(***************************************************************************)
(* C16.  For every accepted request the handler's steps come in the        *)
(* order: registry update, the sleep of the resolved delay, the status,    *)
(* the payload writes; no status line and no payload byte is written       *)
(* before the delay has elapsed, and the delay is applied to 2xx and to    *)
(* non-2xx responses alike.                                                *)
(***************************************************************************)
C16_Rank(ev) ==
    CASE ev.e = "update" -> 1
      [] ev.e = "delay" -> 2
      [] ev.e = "status" -> 3
      [] OTHER -> 4

C16_Ordered(h) ==
    /\ \A i, j \in 1..Len(io[h]) : i < j => C16_Rank(io[h][i]) <= C16_Rank(io[h][j])
    /\ Count(io[h], "update") <= 1
    /\ Count(io[h], "delay") <= 1
    /\ Count(io[h], "status") <= 1

C16_DelayElapsed(h) ==
    LET dur == ListAt(params[h].delays, params[h].sessionCount, 0)
    IN  /\ Count(io[h], "update") = 1
        /\ Sum(io[h], "delay") = dur
        /\ Count(io[h], "delay") = (IF dur > 0 THEN 1 ELSE 0)

C16_UpdateDelayStatusPayload ==
    \A h \in Handlers :
        Accepted(h) =>
            /\ C16_Ordered(h)
            /\ Count(io[h], "status") = 1 \/ Written(h) > 0 => C16_DelayElapsed(h)
            /\ Done(h) /\ ~Panicked(h) => Count(io[h], "status") = 1

C16_DelayedDelivery ==
    \E h \in Handlers :
        /\ Done(h) /\ Accepted(h)
        /\ Len(io[h]) > 4
        /\ io[h][1] = Ev("update", 2)
        /\ io[h][2] = Ev("delay", 2000)
        /\ io[h][3] = Ev("status", 200)
        /\ io[h][4] = Ev("write", 100)

\* The same for a status outside 2xx.
C16_DelayedError ==
    \E h \in Handlers :
        /\ Done(h) /\ Accepted(h)
        /\ io[h] = <<Ev("update", 1), Ev("delay", 1000), Ev("status", 500),
                     Ev("errbody", 0)>>

(***************************************************************************)
(* C17.  Every 2xx response carries, in the headers committed to the       *)
(* client, Content-Length equal to the full size and Content-Type          *)
(* application/octet-stream when bin is present, text/plain;               *)
(* charset=us-ascii otherwise; the declared Content-Length is the size     *)
(* also when a severed connection delivers fewer bytes.                    *)
(***************************************************************************)
C17_CommittedHeaders ==
    \A h \in Handlers :
        Accepted(h) /\ IsSuccess(sent[h].status) =>
            /\ sent[h].hdr.clen = Itoa(params[h].size)
            /\ sent[h].hdr.ctype =
                   (IF Has(query[h], "bin") THEN "application/octet-stream"
                    ELSE "text/plain; charset=us-ascii")

(***************************************************************************)
(* C18.  Every request that parseParams accepts is served to the end: the  *)
(* handler eventually finishes, the loop ending because no byte remains    *)
(* or because the connection was severed, for every accepted size, bps and *)
(* cutOff (sleeps and writes return).                                      *)
(***************************************************************************)
C18_HandlerFinishes ==
    \A h \in Handlers : (Accepted(h) /\ pc[h] # "idle") ~> Done(h)

\* The same for the requests whose chunk size is not 0.
C18_Serving(h) ==
    /\ Accepted(h) /\ pc[h] # "idle"
    /\ params[h].bytesPerSec # <<0>>

C18_HandlerFinishesChunked ==
    \A h \in Handlers : C18_Serving(h) ~> Done(h)

(***************************************************************************)
(* C19.  At every point of the delivery loop of an accepted request:       *)
(* 0 <= toSend <= size and bytesWritten + toSend = size; every write has a *)
(* length between 0 and min(toSend, chunkSize); with truncation active     *)
(* (initial cutOff c >= 0) the allowance left is >= 0 and                  *)
(* bytesWritten + cutOff = c, so the bytes written never exceed            *)
(* min(size, c).  C19_LoopInvariant states it for every accepted size,     *)
(* C19_LoopInvariantValid for the sizes N >= 0.                            *)
(***************************************************************************)
\* The handler is at the loop: at its head, in its body or past its end.
C19_AtLoop(h) ==
    /\ Accepted(h)
    /\ pc[h] \in {"loop", "sleep", "done"}
    /\ Count(io[h], "status") = 1 /\ IsSuccess(sent[h].status)
    /\ ~Panicked(h)

\* toSend before the event at position i of the record.
C19_ToSendBefore(h, i) == params[h].size - Sum(SubSeq(io[h], 1, i - 1), "write")

C19_Invariant(h) ==
    LET c == ListAt(params[h].cutOffs, params[h].sessionCount, -1)
    IN  /\ 0 <= toSend[h] /\ toSend[h] <= params[h].size
        /\ Written(h) + toSend[h] = params[h].size
        /\ \A i \in 1..Len(io[h]) :
               io[h][i].e = "write" =>
                   /\ 0 <= io[h][i].n
                   /\ io[h][i].n <= Min(C19_ToSendBefore(h, i), chunkSizeOf(params[h]))
        /\ c >= 0 =>
               /\ cutOffLeft[h] >= 0
               /\ Written(h) + cutOffLeft[h] = c
               /\ Written(h) <= Min(params[h].size, c)

C19_LoopInvariant == \A h \in Handlers : C19_AtLoop(h) => C19_Invariant(h)

C19_LoopInvariantValid ==
    \A h \in Handlers : C19_AtLoop(h) /\ params[h].size >= 0 => C19_Invariant(h)

\* In the pacing sleep after the first chunk of 2 of 5 bytes, cutOff 3.
C19_MidDelivery ==
    \E h \in Handlers :
        /\ C19_AtLoop(h) /\ pc[h] = "sleep"
        /\ params[h].size = 5 /\ params[h].bytesPerSec = <<2>>
        /\ toSend[h] = 3 /\ cutOffLeft[h] = 1 /\ Written(h) = 2

====
